---- MODULE Spec2Model ----
(***************************************************************************)
(* Model of the course selection simulator of src/maker.py.                *)
(*                                                                         *)
(* The Python class CourseSimulatorGenerator turns the rows of a           *)
(* spreadsheet into the two JSON payloads of the generated page            *)
(* (courseData and groupLimits); the script of the generated page keeps    *)
(* the selection state (selectedCourses, selectionGroups) and changes it   *)
(* in initializeSimulator and toggleCourse.                                *)
(*                                                                         *)
(* Strings are TLA+ strings; the Korean marker of a designated course is   *)
(* written in Latin letters.  Python's None and JSON's null are written    *)
(* "" for a group name and 0 for a limit: the code maps every falsy name   *)
(* and every falsy limit to None (lines 218-219), so both values are free. *)
(***************************************************************************)
EXTENDS Integers, Sequences, FiniteSets, TLC

VARIABLES
    pc,               \* "loaded": page parsed, DOMContentLoaded not yet run; "ready"
    courseData,       \* const courseData (line 790), a sequence of course records
    groupLimits,      \* const groupLimits (line 791), key -> [semester, group_name, limit]
    semesterList,     \* let semesterList (line 794)
    selectedCourses,  \* let selectedCourses (line 793), semester -> sequence of courses
    selectionGroups,  \* let selectionGroups (line 795), key -> [semester, name, limit, selected]
    totalCredits,     \* the number shown in the element #totalCredits
    last,             \* the last handler that ran, with its arguments and what it reported
    repeats,          \* how many times in a row that same call has been made (capped)
    sheet,            \* the spreadsheet file the generator is run on
    df,               \* self.df, the rows of the DataFrame
    result            \* what load_excel_data, process_data and generate_html returned,
                      \* and the file generate_html wrote

vars == <<pc, courseData, groupLimits, semesterList, selectedCourses,
          selectionGroups, totalCredits, last, repeats, sheet, df, result>>

\* the state of the page script, and the state of the generator
pageVars == <<semesterList, selectedCourses, selectionGroups, totalCredits,
              last, repeats>>
generatorVars == <<sheet, df, result>>

(***************************************************************************)
(* Bounds of the model.                                                    *)
(***************************************************************************)
\* the largest number of spreadsheet rows of a catalog
MaxCourses == 3
\* the count of identical consecutive calls stops here
MaxRepeat == 2
\* the largest number of rows of a spreadsheet given to the generator
MaxRows == 2

(***************************************************************************)
(* The values of the spreadsheet cells.                                    *)
(***************************************************************************)
\* the literal '지정' of lines 851, 899, 1019
Designated == "jijeong"
NoGroup == ""
\* a subject area written in Hangul ('국어'); "etc" below is '기타'
Gugeo == "gugeo"

SemA  == "a"
SemAB == "a_b"
Semesters == {SemA, SemAB}
Names == {"X", "Y", "Z"}

\* The rows of the spreadsheet after load_excel_data, in sheet order.  A row
\* holds the stripped cells and the "그룹 내 선택수" cell as the pair
\* parse_group_limits returns for it (name "" and limit 0 when it has no
\* "택N"); a cell "c택0" parses to name "c" and limit 0.
\* The pool holds Required and Elective members of a group, rows of one
\* group with different limits, a group name without entry in the limit
\* table (limit 0), a course without group, the same name in two semesters,
\* zero and negative credits, and two (semester, group) pairs whose keys
\* are the same string: "a" with "b_c" and "a_b" with "c" (two Electives of
\* the first pair, an Elective and a Required course of the second), and
\* two general electives of one semester whose subject areas are Hangul
\* words ('기타' and '국어').
Row(sem, name, cr, req, area, g, lim) ==
    [semester |-> sem, name |-> name, credits |-> cr, required |-> req,
     group |-> area, parsed_group_name |-> g, limit |-> lim]

RowPool ==
    << Row(SemA,  "Z",  2, "",          "sci", "c",   2),
       Row(SemA,  "X",  3, Designated,  "sci", "c",   1),
       Row(SemA,  "Y",  2, Designated,  "sci", "c",   1),
       Row(SemA,  "X",  2, "seontaek",  "sci", "c",   1),
       Row(SemA,  "Y",  2, "",          "",    "c",   1),
       Row(SemA,  "Y",  1, "",          "art", "b_c", 2),
       Row(SemAB, "Y",  1, "",          "art", "c",   2),
       Row(SemAB, "X",  4, "seontaek",  "",    "c",   1),
       Row(SemA,  "Z",  0, "",          "etc", "c",   0),
       Row(SemAB, "Z", -1, "",          "sci", "",    0),
       Row(SemAB, "X",  1, Designated,  "art", "",    0),
       Row(SemAB, "Y",  1, Designated,  "art", "c",   2),
       Row(SemA,  "Z",  2, "",          "art", "b_c", 2),
       Row(SemA,  "X",  1, "",          Gugeo, "",    0) >>

(***************************************************************************)
(* Helpers on sequences (the array methods the script uses).               *)
(***************************************************************************)
Range(s) == {s[i] : i \in DOMAIN s}

\* Array.prototype.filter with the test c.name !== courseName
RECURSIVE FilterOutName(_, _)
FilterOutName(s, courseName) ==
    IF s = <<>> THEN <<>>
    ELSE IF Head(s).name # courseName
         THEN <<Head(s)>> \o FilterOutName(Tail(s), courseName)
         ELSE FilterOutName(Tail(s), courseName)

\* Array.prototype.find / some with the test c.name === courseName
HasName(s, courseName) == \E i \in DOMAIN s : s[i].name = courseName

\* the subsequence of s at the indices in idx, in order
RECURSIVE SubSeqAt(_, _, _)
SubSeqAt(s, idx, i) ==
    IF i > Len(s) THEN <<>>
    ELSE IF i \in idx THEN <<s[i]>> \o SubSeqAt(s, idx, i + 1)
         ELSE SubSeqAt(s, idx, i + 1)

(***************************************************************************)
(* The Python side: process_data and generate_course_data.                 *)
(***************************************************************************)
\* f"{semester}_{parsed_group_name}" (line 162) and `${semester}_${group}` (857, 1180)
sgKey(semester, group) == semester \o "_" \o group

\* process_data without the test of the limit in line 158
RECURSIVE GroupLimitsOf_AnyLimit(_, _)
GroupLimitsOf_AnyLimit(rows, acc) ==
    IF rows = <<>> THEN acc
    ELSE LET row == Head(rows)
             key == sgKey(row.semester, row.parsed_group_name)
         IN IF row.parsed_group_name # NoGroup
               /\ row.semester # ""
               /\ key \notin DOMAIN acc
            THEN GroupLimitsOf_AnyLimit(Tail(rows),
                    [k \in DOMAIN acc \cup {key} |->
                        IF k = key
                        THEN [semester |-> row.semester,
                              group_name |-> row.parsed_group_name,
                              limit |-> row.limit]
                        ELSE acc[k]])
            ELSE GroupLimitsOf_AnyLimit(Tail(rows), acc)

\* process_data, lines 153-169: the first row of a key decides its entry
RECURSIVE GroupLimitsOf(_, _)
GroupLimitsOf(rows, acc) ==
    IF rows = <<>> THEN acc
    ELSE LET row == Head(rows)
             key == sgKey(row.semester, row.parsed_group_name)
         IN IF row.parsed_group_name # NoGroup /\ row.limit # 0
               /\ row.semester # ""
               /\ key \notin DOMAIN acc
            THEN GroupLimitsOf(Tail(rows),
                    [k \in DOMAIN acc \cup {key} |->
                        IF k = key
                        THEN [semester |-> row.semester,
                              group_name |-> row.parsed_group_name,
                              limit |-> row.limit]
                        ELSE acc[k]])
            ELSE GroupLimitsOf(Tail(rows), acc)

process_data(rows) == GroupLimitsOf(rows, <<>>)

\* generate_course_data, lines 198-221
RECURSIVE generate_course_data(_)
generate_course_data(rows) ==
    IF rows = <<>> THEN <<>>
    ELSE LET row == Head(rows)
         IN IF row.name = "" \/ row.semester = ""
            THEN generate_course_data(Tail(rows))
            ELSE << [semester |-> row.semester,
                     name |-> row.name,
                     credits |-> row.credits,
                     required |-> row.required,
                     group |-> row.group,
                     selection_group |-> row.parsed_group_name,
                     selection_limit |-> row.limit] >>
                 \o generate_course_data(Tail(rows))

\* The catalogs: at most MaxCourses rows of the pool, in sheet order, no two
\* with the same (semester, name) (the name of a course is unique within its
\* semester).
CatalogIndexSets ==
    {idx \in SUBSET (1..Len(RowPool)) :
        /\ idx # {}
        /\ Cardinality(idx) <= MaxCourses
        /\ \A i, j \in idx :
              (RowPool[i].semester = RowPool[j].semester
               /\ RowPool[i].name = RowPool[j].name) => i = j}

(***************************************************************************)
(* The spreadsheet as pandas reads it (read_excel with dtype=str, lines     *)
(* 59-69).  A cell is missing (NaN) or a text.  A text is the sequence of  *)
(* its characters; a run of characters that no operation looks into is     *)
(* written as one element.  "T" stands for the marker '택'.                 *)
(***************************************************************************)
NaN == [isna |-> TRUE, text |-> <<>>]
Text(chars) == [isna |-> FALSE, text |-> chars]

Marker == "T"
Blank == " "
DigitChars == <<"0", "1", "2", "3", "4", "5", "6", "7", "8", "9">>
IsDigit(ch) == \E i \in DOMAIN DigitChars : DigitChars[i] = ch
DigitVal(ch) == (CHOOSE i \in DOMAIN DigitChars : DigitChars[i] = ch) - 1

\* str.strip()
RECURSIVE LStrip(_)
LStrip(s) == IF s # <<>> /\ Head(s) = Blank THEN LStrip(Tail(s)) ELSE s
RECURSIVE RStrip(_)
RStrip(s) ==
    IF s # <<>> /\ s[Len(s)] = Blank THEN RStrip(SubSeq(s, 1, Len(s) - 1)) ELSE s
Strip(s) == RStrip(LStrip(s))

\* the Python string of a sequence of characters
RECURSIVE Join(_)
Join(s) == IF s = <<>> THEN "" ELSE Head(s) \o Join(Tail(s))

\* str(cell): the text, and 'nan' for a missing cell
StrOf(cell) == IF cell.isna THEN <<"nan">> ELSE cell.text

\* the string str(row.get(col, '')).strip() of lines 156, 158, 203-207, 216-217
StrippedCell(cell) == Join(Strip(StrOf(cell)))

\* the longest run of digits at the head of s
RECURSIVE DigitRun(_)
DigitRun(s) ==
    IF s # <<>> /\ IsDigit(Head(s)) THEN <<Head(s)>> \o DigitRun(Tail(s)) ELSE <<>>

\* int() of a run of digits
RECURSIVE IntOfDigits(_)
IntOfDigits(s) ==
    IF s = <<>> THEN 0
    ELSE IntOfDigits(SubSeq(s, 1, Len(s) - 1)) * 10 + DigitVal(s[Len(s)])

\* the positions of the marker in s
MarkerPositions(s) == {i \in DOMAIN s : s[i] = Marker}
\* re.search(r'택(\d+)', s): the positions where the pattern matches
MatchPositions(s) ==
    {i \in MarkerPositions(s) : i < Len(s) /\ IsDigit(s[i + 1])}
Least(S) == CHOOSE i \in S : \A j \in S : i <= j

\* the label "선택그룹" of line 99
DefaultGroupName == "seontaekgeurup"

NoParse == [matched |-> FALSE, group_name |-> NoGroup, limit |-> 0]

\* the parse that takes the name in front of the marker that matched
parse_group_limits_BeforeMatch(selection_str) ==
    LET s == Strip(selection_str)
    IN IF s = <<>> \/ MatchPositions(s) = {} THEN NoParse
       ELSE LET at == Least(MatchPositions(s))
                name == Join(Strip(SubSeq(s, 1, at - 1)))
            IN [matched |-> TRUE,
                group_name |-> IF name = "" THEN DefaultGroupName ELSE name,
                limit |-> IntOfDigits(DigitRun(SubSeq(s, at + 1, Len(s))))]

\* parse_group_limits, lines 88-101, for the text the callers pass (a str,
\* never NaN): (None, None) is NoParse
parse_group_limits(selection_str) ==
    LET s == Strip(selection_str)
    IN IF s = <<>> \/ MatchPositions(s) = {} THEN NoParse
       ELSE LET at == Least(MatchPositions(s))
                \* selection_str.split('택')[0].strip()
                name == Join(Strip(SubSeq(s, 1, Least(MarkerPositions(s)) - 1)))
            IN [matched |-> TRUE,
                group_name |-> IF name = "" THEN DefaultGroupName ELSE name,
                limit |-> IntOfDigits(DigitRun(SubSeq(s, at + 1, Len(s))))]

\* A number of the credits column: not a number, infinite, or sign, integer
\* part and whether a fraction is left.
NotANumber == [kind |-> "nan", sign |-> 1, int |-> 0, frac |-> FALSE]
Infinite == [kind |-> "inf", sign |-> 1, int |-> 0, frac |-> FALSE]
Number(sign, int, frac) == [kind |-> "num", sign |-> sign, int |-> int, frac |-> frac]

\* pd.to_numeric(..., errors='coerce') of one stripped text (line 147): an
\* optional sign, digits, and an optional point with digits; 'inf'; every
\* other text, 'nan' and '' among them, is coerced to NaN
to_numeric(chars) ==
    LET s == Strip(chars)
        negative == s # <<>> /\ Head(s) = "-"
        body == IF negative THEN Tail(s) ELSE s
        whole == DigitRun(body)
        rest == SubSeq(body, Len(whole) + 1, Len(body))
        fraction == IF rest # <<>> /\ Head(rest) = "." THEN DigitRun(Tail(rest))
                    ELSE <<>>
    IN IF body = <<"inf">> THEN Infinite
       ELSE IF whole = <<>> THEN NotANumber
       ELSE IF rest = <<>>
            THEN Number(IF negative THEN -1 ELSE 1, IntOfDigits(whole), FALSE)
       ELSE IF Head(rest) = "." /\ fraction # <<>> /\ Len(rest) = Len(fraction) + 1
            THEN Number(IF negative THEN -1 ELSE 1, IntOfDigits(whole),
                        IntOfDigits(fraction) # 0)
       ELSE NotANumber

\* .fillna(0), line 147
fillna0(number) == IF number.kind = "nan" THEN Number(1, 0, FALSE) ELSE number

\* int(x) of line 214: truncation towards zero (an infinite x raises)
IntOf(number) == number.sign * number.int

\* One row of the sheet: six cells.
SheetRow(name, semester, credits, required, group, selection_count) ==
    [name |-> name, semester |-> semester, credits |-> credits,
     required |-> required, group |-> group,
     selection_count |-> selection_count]

\* The rows a sheet is made of: a regular Required and a regular Elective
\* row; a missing and a blank name; a missing and a blank semester; credits
\* that are a fraction, negative, text, missing, infinite, padded with
\* blanks; selection cells with one marker, no name, limit 0, no digit, two
\* markers, two digits, blanks around, or missing.
SheetRowPool ==
    << SheetRow(Text(<<"X">>), Text(<<"a">>), Text(<<"3">>),
                Text(<<Designated>>), Text(<<"sci">>), Text(<<"c", "T", "1">>)),
       SheetRow(Text(<<"Y">>), Text(<<"a">>), Text(<<"2", ".", "5">>),
                Text(<<"seontaek">>), Text(<<"sci">>),
                Text(<<"c", " ", "T", "2", " ">>)),
       SheetRow(NaN, Text(<<"a">>), Text(<<"2">>),
                NaN, Text(<<"sci">>), Text(<<"c", "T", "2">>)),
       SheetRow(Text(<<" ">>), Text(<<"a">>), Text(<<"2">>),
                NaN, Text(<<"sci">>), Text(<<"d", "T", "1">>)),
       SheetRow(Text(<<"Z">>), NaN, Text(<<"1">>),
                NaN, Text(<<"art">>), Text(<<"c", "T", "2">>)),
       SheetRow(Text(<<"Z">>), Text(<<" ">>), Text(<<"1">>),
                NaN, Text(<<"art">>), Text(<<"c", "T", "1">>)),
       SheetRow(Text(<<"Y">>), Text(<<"b">>), Text(<<"-", "2">>),
                NaN, NaN, Text(<<"T", "2">>)),
       SheetRow(Text(<<"X">>), Text(<<"b">>), Text(<<"x">>),
                NaN, Text(<<"art">>), Text(<<"c", "T", "0">>)),
       SheetRow(Text(<<"Z">>), Text(<<"b">>), NaN,
                Text(<<" ", Designated, " ">>), Text(<<"art">>),
                Text(<<"c", "T", "b", "T", "1">>)),
       SheetRow(Text(<<"Z">>), Text(<<"a">>), Text(<<"inf">>),
                NaN, Text(<<"art">>), NaN),
       SheetRow(Text(<<" ", "Y">>), Text(<<"a", " ">>), Text(<<" ", "4", " ">>),
                NaN, Text(<<"art">>), Text(<<"c", "T">>)),
       SheetRow(Text(<<"W">>), Text(<<"b">>), Text(<<"1", "0">>),
                NaN, Text(<<"art">>), Text(<<"c", "T", "1", "2">>)) >>

\* what the program has returned so far, the file it has written, and
\* whether the file system let generate_html write
NoResult ==
    [load |-> "none", process |-> "none", html |-> "none", file |-> <<>>,
     writable |-> TRUE]

\* the logical columns process_data cannot do without (line 135)
required_std_cols == {"semester", "name", "credits", "required", "group"}
AllColumns == required_std_cols \cup {"selection_count"}
\* the sets of logical columns _map_columns (lines 103-125) finds in a sheet
ColumnSets ==
    {AllColumns, required_std_cols, AllColumns \ {"credits"},
     AllColumns \ {"semester", "group"}}

\* The sheets: a readable or unreadable file with one of the column sets and
\* at most MaxRows rows of the pool, in order.
Sheets ==
    {[readable |-> r, columns |-> cols, rows |-> SubSeqAt(SheetRowPool, idx, 1)] :
        r \in BOOLEAN, cols \in ColumnSets,
        idx \in {i \in SUBSET (1..Len(SheetRowPool)) : Cardinality(i) <= MaxRows}}
NoSheet == [readable |-> FALSE, columns |-> {}, rows |-> <<>>]

\* a process_data that does not look for the columns
missing_cols_Ignored(columns) == {}

\* line 136
missing_cols(columns) == required_std_cols \ columns

\* the values of one column
Column(rows, col) ==
    [i \in DOMAIN rows |->
        CASE col = "name" -> rows[i].name
          [] col = "semester" -> rows[i].semester
          [] col = "credits" -> rows[i].credits
          [] col = "required" -> rows[i].required
          [] col = "group" -> rows[i].group
          [] OTHER -> rows[i].selection_count]

\* lines 66-68: a column is stripped when every value of it is a str
StripCell(rows, col, cell) ==
    IF \A i \in DOMAIN rows : ~Column(rows, col)[i].isna
    THEN Text(Strip(cell.text)) ELSE cell

\* load_excel_data, lines 59-69: the rows of the DataFrame, each with its
\* index label, before the credits column is converted
load_excel_data(rows) ==
    [i \in DOMAIN rows |->
        [index |-> i,
         name |-> StripCell(rows, "name", rows[i].name),
         semester |-> StripCell(rows, "semester", rows[i].semester),
         credits |-> StripCell(rows, "credits", rows[i].credits),
         required |-> StripCell(rows, "required", rows[i].required),
         group |-> StripCell(rows, "group", rows[i].group),
         selection_count |-> StripCell(rows, "selection_count",
                                       rows[i].selection_count),
         number |-> NotANumber]]

\* dropna(subset=[name_col]), line 145
dropna(frame) == LET Present(r) == ~r.name.isna IN SelectSeq(frame, Present)

\* lines 146-147: astype(str).str.strip(), to_numeric, fillna(0)
ConvertCredits(frame) ==
    [i \in DOMAIN frame |->
        [frame[i] EXCEPT !.number = fillna0(to_numeric(StrOf(frame[i].credits)))]]

\* What the loops of lines 155-158 and 198-220 read in one row of the
\* DataFrame: the stripped strings, int(credits) and the parsed selection
\* cell (nothing is parsed when the sheet has no selection column).
RowOf(r, columns) ==
    LET parsed == IF "selection_count" \in columns
                  THEN parse_group_limits(Strip(StrOf(r.selection_count)))
                  ELSE NoParse
    IN Row(StrippedCell(r.semester), StrippedCell(r.name), IntOf(r.number),
           StrippedCell(r.required), StrippedCell(r.group),
           IF parsed.matched THEN parsed.group_name ELSE NoGroup,
           IF parsed.matched THEN parsed.limit ELSE 0)

RowsOf(frame, columns) == [i \in DOMAIN frame |-> RowOf(frame[i], columns)]

\* the rows of the DataFrame the loop of generate_course_data keeps (line 207)
Kept(r) == StrippedCell(r.name) # "" /\ StrippedCell(r.semester) # ""

\* generate_course_data, lines 182-229: int() of an infinite number raises
\* OverflowError in the loop, and the handler of line 227 returns no course
CourseListOf(frame, columns) ==
    IF \E i \in DOMAIN frame : Kept(frame[i]) /\ frame[i].number.kind = "inf"
    THEN <<>>
    ELSE generate_course_data(RowsOf(frame, columns))

\* The replacement fields str.format meets in the template, in the order of
\* the text: {school_name} (lines 291, 769), {course_data} (790),
\* {group_limits} (791), and the braces that were left single: "{}" of line
\* 793 is the first of them.
TemplateFields ==
    <<"school_name", "school_name", "course_data", "group_limits", "">>

\* str.format(**kwargs), line 243: a field without a name asks for a
\* positional argument (IndexError), an unknown name raises KeyError
Format(fields, kwargs) ==
    IF \E i \in DOMAIN fields : fields[i] = "" \/ fields[i] \notin DOMAIN kwargs
    THEN [raised |-> TRUE, text |-> <<>>]
    ELSE [raised |-> FALSE, text |-> [i \in DOMAIN fields |-> kwargs[fields[i]]]]

school_name == "gogyo"
OutputPath == "gogyo.html"

\* generate_html, lines 231-280: what it returns and the file it leaves
generate_html(frame, columns, group_limits, writable) ==
    LET course_data == CourseListOf(frame, columns)
        html == Format(TemplateFields,
                       [school_name |-> <<school_name>>,
                        course_data |-> course_data,
                        group_limits |-> <<group_limits>>])
    IN IF course_data = <<>> THEN [returned |-> "False", file |-> <<>>]
       ELSE IF html.raised THEN [returned |-> "False", file |-> <<>>]
       ELSE IF ~writable THEN [returned |-> "False", file |-> <<>>]
       ELSE [returned |-> OutputPath, file |-> <<html.text>>]

(***************************************************************************)
(* The script of the page.                                                 *)
(***************************************************************************)
\* the order of Array.prototype.sort() on the semester strings (UTF-16 units)
JsStringRank(s) == IF s = SemA THEN 1 ELSE 2

RECURSIVE SortedSemesters(_)
SortedSemesters(S) ==
    IF S = {} THEN <<>>
    ELSE LET m == CHOOSE x \in S : \A y \in S : JsStringRank(x) <= JsStringRank(y)
         IN <<m>> \o SortedSemesters(S \ {m})

\* line 805
SemesterListOf(cd) ==
    SortedSemesters({cd[i].semester : i \in DOMAIN cd} \ {""})

\* Number(course.credits) || 0 (lines 1100, 1263)
NumberOrZero(x) == IF x = 0 THEN 0 ELSE x

\* updateSummary, lines 1246-1268: the total over the semesters of semesterList
RECURSIVE SumCredits(_)
SumCredits(courses) ==
    IF courses = <<>> THEN 0
    ELSE NumberOrZero(Head(courses).credits) + SumCredits(Tail(courses))

RECURSIVE SummaryTotal(_, _)
SummaryTotal(sems, sc) ==
    IF sems = <<>> THEN 0
    ELSE (IF Head(sems) \in DOMAIN sc THEN SumCredits(sc[Head(sems)]) ELSE 0)
         + SummaryTotal(Tail(sems), sc)

\* updateSummary adding up the first semester of the list only
updateSummary_FirstSemesterOnly(sems, sc) ==
    IF sems = <<>> THEN 0 ELSE SummaryTotal(<<Head(sems)>>, sc)

updateSummary(sems, sc) == SummaryTotal(sems, sc)

\* the label '기타' of lines 1087 and 1264
EtcArea == "etc"
\* course.group || '기타'
AreaOf(course) == IF course.group = "" THEN EtcArea ELSE course.group

\* the chosen courses in the order the forEach loops of lines 1085-1086 and
\* 1249-1258 visit them
RECURSIVE ChosenInOrder(_, _)
ChosenInOrder(sems, sc) ==
    IF sems = <<>> THEN <<>>
    ELSE (IF Head(sems) \in DOMAIN sc THEN sc[Head(sems)] ELSE <<>>)
         \o ChosenInOrder(Tail(sems), sc)

\* groupTotals that leaves out the courses without area
RECURSIVE groupTotals_NoEtc(_, _)
groupTotals_NoEtc(courses, acc) ==
    IF courses = <<>> THEN acc
    ELSE LET course == Head(courses)
             gName == course.group
             before == IF gName \in DOMAIN acc THEN acc[gName] ELSE 0
         IN IF gName = "" THEN groupTotals_NoEtc(Tail(courses), acc)
            ELSE groupTotals_NoEtc(Tail(courses),
                    [g \in DOMAIN acc \cup {gName} |->
                        IF g = gName THEN before + NumberOrZero(course.credits)
                        ELSE acc[g]])

\* updateSummary, lines 1264-1265: groupTotals[gName] =
\* (groupTotals[gName] || 0) + (Number(course.credits) || 0)
RECURSIVE groupTotals(_, _)
groupTotals(courses, acc) ==
    IF courses = <<>> THEN acc
    ELSE LET course == Head(courses)
             gName == AreaOf(course)
             before == IF gName \in DOMAIN acc THEN acc[gName] ELSE 0
         IN groupTotals(Tail(courses),
               [g \in DOMAIN acc \cup {gName} |->
                   IF g = gName THEN before + NumberOrZero(course.credits)
                   ELSE acc[g]])

\* the per-area totals updateSummary writes into #groupCredits (1270-1276)
SummaryAreaTotals(sems, sc) == groupTotals(ChosenInOrder(sems, sc), <<>>)

\* renderGroupSummary, lines 1084-1091: the chosen courses of each area
groupMap(sems, sc) ==
    LET all == ChosenInOrder(sems, sc)
    IN [g \in {AreaOf(all[i]) : i \in DOMAIN all} |->
           LET Test(c) == AreaOf(c) = g IN SelectSeq(all, Test)]

\* renderGroupSummary, line 1100: the total in the title of each area
GroupSummaryTotals(sems, sc) ==
    LET map == groupMap(sems, sc)
    IN [g \in DOMAIN map |-> SumCredits(map[g])]

\* initializeSelectionGroups, lines 837-848
EmptySelectionGroups(gl) ==
    [key \in DOMAIN gl |->
        [semester |-> gl[key].semester, name |-> gl[key].group_name,
         limit |-> gl[key].limit, selected |-> <<>>]]

\* initializeSelectionGroups, lines 850-869: one step of courseData.forEach
InitCourseStep(st, course) ==
    IF course.required = Designated
    THEN LET sc1 == IF course.semester \in DOMAIN st.sc
                       /\ ~HasName(st.sc[course.semester], course.name)
                    THEN [st.sc EXCEPT ![course.semester] = Append(@, course)]
                    ELSE st.sc
             key == sgKey(course.semester, course.selection_group)
             sg1 == IF course.selection_group # NoGroup
                       /\ key \in DOMAIN st.sg
                       /\ ~HasName(st.sg[key].selected, course.name)
                    THEN [st.sg EXCEPT ![key].selected = Append(@, course)]
                    ELSE st.sg
         IN [sc |-> sc1, sg |-> sg1]
    ELSE st

RECURSIVE InitCourses(_, _)
InitCourses(st, cd) ==
    IF cd = <<>> THEN st ELSE InitCourses(InitCourseStep(st, Head(cd)), Tail(cd))

initializeSelectionGroups(sc, gl, cd) ==
    InitCourses([sc |-> sc, sg |-> EmptySelectionGroups(gl)], cd)

\* what a handler reports: the alert shown (line 1184), as <<name, limit>>
NoAlert == <<>>

\* and, for toggleCourse, its local isCurrentlySelected (line 1176)
Call(op, semester, name, checkedIn, wasSelected, checked, alert) ==
    [op |-> op, semester |-> semester, name |-> name, checkedIn |-> checkedIn,
     wasSelected |-> wasSelected, checked |-> checked, alert |-> alert]

NoCall == Call("none", "", "", FALSE, FALSE, FALSE, NoAlert)

SameCall(call, op, semester, name, checkedIn) ==
    /\ call.op = op
    /\ call.semester = semester
    /\ call.name = name
    /\ call.checkedIn = checkedIn

\* a find that compares the name only
FindCourse_ByNameOnly(cd, semester, courseName) ==
    LET hits == {i \in DOMAIN cd : cd[i].name = courseName}
    IN IF hits = {} THEN <<>>
       ELSE <<cd[CHOOSE i \in hits : \A j \in hits : i <= j]>>

\* courseData.find(c => c.semester === semester && c.name === courseName), line 1173
FindCourse(cd, semester, courseName) ==
    LET hits == {i \in DOMAIN cd :
                    cd[i].semester = semester /\ cd[i].name = courseName}
    IN IF hits = {} THEN <<>>
       ELSE <<cd[CHOOSE i \in hits : \A j \in hits : i <= j]>>

\* IsSelectedIn comparing the stored objects with a fresh one: never equal
IsSelectedIn_Never(sc, semester, courseName) == FALSE

\* selectedCourses[semester]?.some(c => c.name === courseName), lines 1120, 1176
IsSelectedIn(sc, semester, courseName) ==
    semester \in DOMAIN sc /\ HasName(sc[semester], courseName)

\* the test of line 1182: groupInfo.selected.length >= groupInfo.limit
GroupIsFull(groupInfo) == Len(groupInfo.selected) >= groupInfo.limit

\* What toggleCourse leaves behind: the two stores, the state of the checkbox
\* when the handler returns, the alert it showed and whether it reached
\* updateSummary (line 1209).
ToggleResult(sc, sg, checked, alert, summary) ==
    [sc |-> sc, sg |-> sg, checked |-> checked, alert |-> alert,
     summary |-> summary]

\* RejectSelect with line 1187 run before the test of line 1182: the course
\* is entered in the group although the selection is refused
RejectSelect_PushesFirst(sc, sg, key, course) ==
    ToggleResult(sc, [sg EXCEPT ![key].selected = Append(@, course)],
                 FALSE, <<sg[key].name, sg[key].limit>>, FALSE)

\* RejectSelect without the return of line 1185: control falls through to
\* the push of line 1189
RejectSelect_NoReturn(sc, sg, key, course) ==
    ToggleResult([sc EXCEPT ![course.semester] = Append(@, course)], sg,
                 FALSE, <<sg[key].name, sg[key].limit>>, TRUE)

\* RejectSelect without line 1183: the checkbox of a refused selection stays
\* checked
RejectSelect_KeepsChecked(sc, sg, key, course) ==
    ToggleResult(sc, sg, TRUE, <<sg[key].name, sg[key].limit>>, FALSE)

\* lines 1183-1185: the checkbox is reset, the alert names the group and its
\* limit, and the handler returns
RejectSelect(sc, sg, key, course) ==
    ToggleResult(sc, sg, FALSE, <<sg[key].name, sg[key].limit>>, FALSE)

\* AcceptSelect with the push of line 1189 inside the block of line 1179:
\* only a course with a group name is entered in the chosen list
AcceptSelect_OnlyGrouped(sc, sg, semester, key, isLimited, course) ==
    ToggleResult(IF course.selection_group # NoGroup
                 THEN [sc EXCEPT ![semester] = Append(@, course)]
                 ELSE sc,
                 IF isLimited
                 THEN [sg EXCEPT ![key].selected = Append(@, course)]
                 ELSE sg,
                 TRUE, NoAlert, TRUE)

\* lines 1187-1189
AcceptSelect(sc, sg, semester, key, isLimited, course) ==
    ToggleResult([sc EXCEPT ![semester] = Append(@, course)],
                 IF isLimited
                 THEN [sg EXCEPT ![key].selected = Append(@, course)]
                 ELSE sg,
                 TRUE, NoAlert, TRUE)

\* Deselect that empties the chosen list of the semester
Deselect_ClearsSemester(sc, sg, semester, key, isLimited, courseName) ==
    ToggleResult([sc EXCEPT ![semester] = <<>>],
                 IF isLimited
                 THEN [sg EXCEPT ![key].selected = FilterOutName(@, courseName)]
                 ELSE sg,
                 FALSE, NoAlert, TRUE)

\* Deselect without line 1198: the course leaves its group, not the chosen list
Deselect_MissesChosen(sc, sg, semester, key, isLimited, courseName) ==
    ToggleResult(sc,
                 IF isLimited
                 THEN [sg EXCEPT ![key].selected = FilterOutName(@, courseName)]
                 ELSE sg,
                 FALSE, NoAlert, TRUE)

\* lines 1191-1198
Deselect(sc, sg, semester, key, isLimited, courseName) ==
    ToggleResult([sc EXCEPT ![semester] = FilterOutName(@, courseName)],
                 IF isLimited
                 THEN [sg EXCEPT ![key].selected = FilterOutName(@, courseName)]
                 ELSE sg,
                 FALSE, NoAlert, TRUE)

\* toggleCourse that flips: it ignores the state of the checkbox and changes
\* the chosen status of the course on every call
toggleCourse_Flips(cd, sc, sg, semester, courseName, checked) ==
    LET found == FindCourse(cd, semester, courseName)
    IN IF found = <<>> THEN ToggleResult(sc, sg, checked, NoAlert, FALSE)
       ELSE
       LET course == found[1]
           isCurrentlySelected == IsSelectedIn(sc, semester, courseName)
           key == sgKey(semester, course.selection_group)
           isLimited == course.selection_group # NoGroup /\ key \in DOMAIN sg
       IN IF ~isCurrentlySelected
          THEN IF isLimited /\ GroupIsFull(sg[key])
               THEN RejectSelect(sc, sg, key, course)
               ELSE AcceptSelect(sc, sg, semester, key, isLimited, course)
          ELSE Deselect(sc, sg, semester, key, isLimited, courseName)

\* toggleCourse, lines 1172-1210
toggleCourse(cd, sc, sg, semester, courseName, checked) ==
    LET found == FindCourse(cd, semester, courseName)
    IN IF found = <<>> THEN ToggleResult(sc, sg, checked, NoAlert, FALSE)
       ELSE
       LET course == found[1]
           isCurrentlySelected == IsSelectedIn(sc, semester, courseName)
           key == sgKey(semester, course.selection_group)
           isLimited == course.selection_group # NoGroup /\ key \in DOMAIN sg
       IN IF checked /\ ~isCurrentlySelected
          THEN IF isLimited /\ GroupIsFull(sg[key])
               THEN RejectSelect(sc, sg, key, course)
               ELSE AcceptSelect(sc, sg, semester, key, isLimited, course)
          ELSE IF ~checked /\ isCurrentlySelected
          THEN Deselect(sc, sg, semester, key, isLimited, courseName)
          ELSE ToggleResult(sc, sg, checked, NoAlert, TRUE)

\* CardDisabled with > for >= in line 1131
CardDisabled_Strict(sc, sg, course, isRequired) ==
    LET isSelected == IsSelectedIn(sc, course.semester, course.name)
        key == sgKey(course.semester, course.selection_group)
    IN /\ ~isRequired
       /\ course.selection_group # NoGroup
       /\ key \in DOMAIN sg
       /\ Len(sg[key].selected) > sg[key].limit
       /\ ~isSelected

\* createCourseCard, lines 1120-1134: the disabled flag of the card's checkbox
CardDisabled(sc, sg, course, isRequired) ==
    LET isSelected == IsSelectedIn(sc, course.semester, course.name)
        key == sgKey(course.semester, course.selection_group)
    IN /\ ~isRequired
       /\ course.selection_group # NoGroup
       /\ key \in DOMAIN sg
       /\ Len(sg[key].selected) >= sg[key].limit
       /\ ~isSelected

\* lines 899 and 1018: the courses in the grid "지정과목" of a semester
requiredCourses(cd, semester) ==
    LET Test(c) == c.semester = semester /\ c.required = Designated
    IN SelectSeq(cd, Test)

\* generateSemesterContents and renderCourses, lines 898-900 and 1012-1024:
\* the courses of a semester that are not designated
optionalCourses(cd, semester) ==
    LET Test(c) == c.semester = semester /\ c.required # Designated
    IN SelectSeq(cd, Test)

\* generalOptionalCourses without the test of lines 949-950: a course with
\* a group name is never a general elective
generalOptionalCourses_NoGroupOnly(cd, sg, semester) ==
    LET Test(c) == c.selection_group = NoGroup
    IN SelectSeq(optionalCourses(cd, semester), Test)

\* lines 947-951 and 1054-1058: the courses shown under "일반선택"
generalOptionalCourses(cd, sg, semester) ==
    LET Test(c) == \/ c.selection_group = NoGroup
                   \/ sgKey(c.semester, c.selection_group) \notin DOMAIN sg
    IN SelectSeq(optionalCourses(cd, semester), Test)

\* line 1041: the courses shown in the grid of a selection group
coursesForThisGroup(cd, semester, selectionGroupName) ==
    LET Test(c) == c.selection_group = selectionGroupName
    IN SelectSeq(optionalCourses(cd, semester), Test)

\* lines 1028-1032: the group names renderCourses makes a grid for
RenderedGroupNames(sg, semester) ==
    {sg[key].name : key \in {k \in DOMAIN sg : sg[k].semester = semester}}

(***************************************************************************)
(* The containers of the page and the cards in them.                       *)
(***************************************************************************)
\* the texts of the model that stand for Hangul words
HangulTexts == {Designated, "seontaek", EtcArea, Gugeo}

\* String(text).replace(/[^a-zA-Z0-9-_]/g, ''), lines 894, 925, 956, 1013,
\* 1034, 1063: a Hangul word loses every character; the other texts of the
\* model are made of a-z, A-Z and "_" and stay whole
safeId(text) == IF text \in HangulTexts THEN "" ELSE text

\* the order of Array.prototype.sort() on the subject areas (UTF-16 code
\* units): ASCII before Hangul, '국어' (U+AD6D) before '기타' (U+AE30)
JsAreaRank(area) ==
    CASE area = "art" -> 1
      [] area = "sci" -> 2
      [] area = Gugeo -> 3
      [] area = EtcArea -> 4
      [] OTHER -> 5

RECURSIVE SortedAreas(_)
SortedAreas(S) ==
    IF S = {} THEN <<>>
    ELSE LET m == CHOOSE x \in S : \A y \in S : JsAreaRank(x) <= JsAreaRank(y)
         IN <<m>> \o SortedAreas(S \ {m})

\* lines 954 and 1061: [...new Set(generalOptionalCourses.map(course =>
\* course.group || '기타'))].sort()
AreasForGeneral(cd, sg, semester) ==
    SortedAreas({AreaOf(c) :
                    c \in Range(generalOptionalCourses(cd, sg, semester))})

\* for (const sgKey in selectionGroups), lines 918 and 1028: the keys in
\* the order they were entered, which is the order of the rows that made
\* them (lines 155-169 and 838-848)
RECURSIVE KeysInOrder(_, _, _)
KeysInOrder(cd, sg, acc) ==
    IF cd = <<>> THEN acc
    ELSE LET c == Head(cd)
             key == sgKey(c.semester, c.selection_group)
         IN IF /\ c.selection_group # NoGroup
               /\ c.selection_limit # 0
               /\ key \in DOMAIN sg
               /\ key \notin Range(acc)
            THEN KeysInOrder(Tail(cd), sg, Append(acc, key))
            ELSE KeysInOrder(Tail(cd), sg, acc)

\* lines 919-923 and 1029-1032: the group names of a semester, each once
RECURSIVE GroupNamesOf(_, _, _, _)
GroupNamesOf(keys, sg, semester, acc) ==
    IF keys = <<>> THEN acc
    ELSE LET groupInfo == sg[Head(keys)]
         IN IF groupInfo.semester = semester /\ groupInfo.name \notin Range(acc)
            THEN GroupNamesOf(Tail(keys), sg, semester, Append(acc, groupInfo.name))
            ELSE GroupNamesOf(Tail(keys), sg, semester, acc)

processedSelectionGroupNames(cd, sg, semester) ==
    GroupNamesOf(KeysInOrder(cd, sg, <<>>), sg, semester, <<>>)

\* the element ids of lines 896, 911, 927 and 958
semesterDivId(semester) == "semester-" \o safeId(semester)
requiredGridId(semester) == "required-" \o safeId(semester)
groupGridId(semester, selectionGroupName) ==
    "grid-" \o safeId(semester) \o "-" \o safeId(selectionGroupName)
generalGridId(semester, area) ==
    "grid-general-" \o safeId(semester) \o "-" \o safeId(area)

\* an element of the document: what it was made for, and its id
Element(kind, semester, label, id) ==
    [kind |-> kind, semester |-> semester, label |-> label, id |-> id]

RECURSIVE GroupGrids(_, _)
GroupGrids(semester, names) ==
    IF names = <<>> THEN <<>>
    ELSE <<Element("group", semester, Head(names),
                   groupGridId(semester, Head(names)))>>
         \o GroupGrids(semester, Tail(names))

RECURSIVE GeneralGrids(_, _)
GeneralGrids(semester, areas) ==
    IF areas = <<>> THEN <<>>
    ELSE <<Element("general", semester, Head(areas),
                   generalGridId(semester, Head(areas)))>>
         \o GeneralGrids(semester, Tail(areas))

\* lines 893-969: the container of one semester and the grids in it, in
\* document order
SemesterElements(cd, sg, semester) ==
    <<Element("semester", semester, "", semesterDivId(semester))>>
    \o (IF requiredCourses(cd, semester) # <<>>
        THEN <<Element("required", semester, "", requiredGridId(semester))>>
        ELSE <<>>)
    \o GroupGrids(semester, processedSelectionGroupNames(cd, sg, semester))
    \o GeneralGrids(semester, AreasForGeneral(cd, sg, semester))

\* generateSemesterContents, lines 888-975: the elements with an id, in
\* document order
RECURSIVE generateSemesterContents(_, _, _)
generateSemesterContents(sems, cd, sg) ==
    IF sems = <<>> THEN <<Element("summary", "", "", "semester-group")>>
    ELSE SemesterElements(cd, sg, Head(sems))
         \o generateSemesterContents(Tail(sems), cd, sg)

\* document.getElementById(id): the first element with the id, 0 for null
getElementById(doc, id) ==
    LET hits == {i \in DOMAIN doc : doc[i].id = id}
    IN IF hits = {} THEN 0 ELSE CHOOSE i \in hits : \A j \in hits : i <= j

\* a card, line 1158: a course, with a checkbox unless it is designated
Card(course, isRequired) == [course |-> course, toggle |-> ~isRequired]

RECURSIVE CardsOf(_, _)
CardsOf(courses, isRequired) ==
    IF courses = <<>> THEN <<>>
    ELSE <<Card(Head(courses), isRequired)>> \o CardsOf(Tail(courses), isRequired)

\* container.innerHTML = '' followed by the appendChild calls, lines
\* 1017-1021, 1038-1044 and 1066-1071; nothing when the container is null
FillGrid(doc, cards, id, courses, isRequired) ==
    LET i == getElementById(doc, id)
    IN IF i = 0 THEN cards
       ELSE [cards EXCEPT ![i] = CardsOf(courses, isRequired)]

RECURSIVE RenderGroups(_, _, _, _, _)
RenderGroups(doc, cards, cd, semester, names) ==
    IF names = <<>> THEN cards
    ELSE RenderGroups(doc,
                      FillGrid(doc, cards, groupGridId(semester, Head(names)),
                               coursesForThisGroup(cd, semester, Head(names)),
                               FALSE),
                      cd, semester, Tail(names))

\* line 1068
coursesForThisArea(cd, sg, semester, area) ==
    LET Test(c) == AreaOf(c) = area
    IN SelectSeq(generalOptionalCourses(cd, sg, semester), Test)

RECURSIVE RenderGeneral(_, _, _, _, _, _)
RenderGeneral(doc, cards, cd, sg, semester, areas) ==
    IF areas = <<>> THEN cards
    ELSE RenderGeneral(doc,
                       FillGrid(doc, cards, generalGridId(semester, Head(areas)),
                                coursesForThisArea(cd, sg, semester, Head(areas)),
                                FALSE),
                       cd, sg, semester, Tail(areas))

\* renderCourses, lines 1011-1077: the cards of every element of the
\* document after the call
renderCourses(doc, cards, cd, sg, semester) ==
    LET afterRequired ==
            FillGrid(doc, cards, requiredGridId(semester),
                     requiredCourses(cd, semester), TRUE)
        afterGroups ==
            RenderGroups(doc, afterRequired, cd, semester,
                         processedSelectionGroupNames(cd, sg, semester))
    IN RenderGeneral(doc, afterGroups, cd, sg, semester,
                     AreasForGeneral(cd, sg, semester))

\* the name of the tab of the per-area view, line 796
groupTabName == "gyogwagunbyeol"

\* a showSemester that empties the lists of the semesters it does not show
showSemester_KeepsShownOnly(sems, sc, sg, semester) ==
    LET kept == [s \in DOMAIN sc |-> IF s = semester THEN sc[s] ELSE <<>>]
    IN [sc |-> kept, sg |-> sg, total |-> updateSummary(sems, kept)]

\* showSemester, lines 988-1009: renderGroupSummary (1080-1113) or
\* renderCourses (1011-1077) with createCourseCard and
\* updateSelectionLimitUI only read selectedCourses and selectionGroups and
\* write the page; updateSummary recomputes the displayed total
showSemester(sems, sc, sg, semester) ==
    [sc |-> sc, sg |-> sg, total |-> updateSummary(sems, sc)]

Init ==
    /\ pc = "loaded"
    /\ \E idx \in CatalogIndexSets :
          LET rows == SubSeqAt(RowPool, idx, 1)
          IN /\ courseData = generate_course_data(rows)
             /\ groupLimits = process_data(rows)
    /\ semesterList = <<>>
    /\ selectedCourses = <<>>
    /\ selectionGroups = <<>>
    /\ totalCredits = 0
    /\ last = NoCall
    /\ repeats = 0
    /\ sheet = NoSheet
    /\ df = <<>>
    /\ result = NoResult

\* initializeSimulator, lines 803-821 (DOMContentLoaded)
initializeSimulator ==
    /\ pc = "loaded"
    /\ LET sems == SemesterListOf(courseData)
           st == initializeSelectionGroups([s \in Range(sems) |-> <<>>],
                                           groupLimits, courseData)
       IN /\ semesterList' = sems
          /\ selectedCourses' = st.sc
          /\ selectionGroups' = st.sg
          /\ totalCredits' = updateSummary(sems, st.sc)
    /\ pc' = "ready"
    /\ last' = Call("initializeSimulator", "", "", FALSE, FALSE, FALSE, NoAlert)
    /\ repeats' = 1
    /\ UNCHANGED <<courseData, groupLimits>>
    /\ UNCHANGED generatorVars

\* a change event of a checkbox, or any other call of toggleCourse
ToggleCourse ==
    /\ pc = "ready"
    /\ \E semester \in Semesters, courseName \in Names, checked \in BOOLEAN :
          LET r == toggleCourse(courseData, selectedCourses, selectionGroups,
                                semester, courseName, checked)
          IN /\ selectedCourses' = r.sc
             /\ selectionGroups' = r.sg
             /\ totalCredits' = IF r.summary
                                THEN updateSummary(semesterList, r.sc)
                                ELSE totalCredits
             /\ last' = Call("toggleCourse", semester, courseName, checked,
                             /\ FindCourse(courseData, semester, courseName) # <<>>
                             /\ IsSelectedIn(selectedCourses, semester, courseName),
                             r.checked, r.alert)
             /\ repeats' = IF SameCall(last, "toggleCourse", semester,
                                       courseName, checked)
                           THEN IF repeats < MaxRepeat THEN repeats + 1
                                ELSE MaxRepeat
                           ELSE 1
    /\ UNCHANGED <<pc, courseData, groupLimits, semesterList>>
    /\ UNCHANGED generatorVars

\* showSemester, lines 988-1009: a click on a tab; it renders and ends with
\* updateSummary
ShowSemester ==
    /\ pc = "ready"
    /\ \E semester \in Semesters \cup {groupTabName} :
          LET r == showSemester(semesterList, selectedCourses,
                                selectionGroups, semester)
          IN /\ selectedCourses' = r.sc
             /\ selectionGroups' = r.sg
             /\ totalCredits' = r.total
             /\ last' = Call("showSemester", semester, "", FALSE, FALSE,
                             FALSE, NoAlert)
    /\ repeats' = 1
    /\ UNCHANGED <<pc, courseData, groupLimits, semesterList>>
    /\ UNCHANGED generatorVars

Next ==
    \/ initializeSimulator
    \/ ToggleCourse
    \/ ShowSemester

Spec == Init /\ [][Next]_vars

(***************************************************************************)
(* The generator: main in command-line mode (lines 1370-1387), which is    *)
(* also the order of process_file (lines 1327-1362).                       *)
(***************************************************************************)
InitGenerator ==
    /\ pc = "main"
    /\ sheet \in Sheets
    /\ df = <<>>
    /\ result = NoResult
    /\ courseData = <<>>
    /\ groupLimits = <<>>
    /\ semesterList = <<>>
    /\ selectedCourses = <<>>
    /\ selectionGroups = <<>>
    /\ totalCredits = 0
    /\ last = NoCall
    /\ repeats = 0

\* generator.load_excel_data(file_path), lines 1378 and 1338
LoadExcelData ==
    /\ pc = "main"
    /\ IF sheet.readable
       THEN /\ df' = load_excel_data(sheet.rows)
            /\ result' = [result EXCEPT !.load = "True"]
            /\ pc' = "load_ok"
       ELSE /\ df' = df
            /\ result' = [result EXCEPT !.load = "False"]
            /\ pc' = "end"
    /\ UNCHANGED <<sheet, courseData, groupLimits>>
    /\ UNCHANGED pageVars

\* generator.process_data(), lines 130-180, called at lines 1379 and 1343
ProcessData ==
    /\ pc = "load_ok"
    /\ IF missing_cols(sheet.columns) # {}
       THEN /\ df' = df
            /\ groupLimits' = groupLimits
            /\ result' = [result EXCEPT !.process = "False"]
            /\ pc' = "end"
       ELSE /\ df' = ConvertCredits(dropna(df))
            /\ groupLimits' = IF "selection_count" \in sheet.columns
                              THEN process_data(RowsOf(df', sheet.columns))
                              ELSE <<>>
            /\ result' = [result EXCEPT !.process = "True"]
            /\ pc' = "process_ok"
    /\ UNCHANGED <<sheet, courseData>>
    /\ UNCHANGED pageVars

\* generator.generate_html(), called at lines 1380 and 1348; the file
\* system lets it write the file or not
GenerateHtml ==
    /\ pc = "process_ok"
    /\ \E writable \in BOOLEAN :
          LET r == generate_html(df, sheet.columns, groupLimits, writable)
          IN result' = [result EXCEPT !.html = r.returned, !.file = r.file,
                                       !.writable = writable]
    /\ courseData' = CourseListOf(df, sheet.columns)
    /\ pc' = "end"
    /\ UNCHANGED <<sheet, df, groupLimits>>
    /\ UNCHANGED pageVars

NextGenerator ==
    \/ LoadExcelData
    \/ ProcessData
    \/ GenerateHtml

SpecGenerator == InitGenerator /\ [][NextGenerator]_vars

(***************************************************************************)
(* The vocabulary of the claims.                                           *)
(***************************************************************************)
Ready == pc = "ready"
Courses == Range(courseData)
IsRequired(c) == c.required = Designated
Chosen(semester) ==
    IF semester \in DOMAIN selectedCourses
    THEN Range(selectedCourses[semester]) ELSE {}
IsChosen(c) == c \in Chosen(c.semester)
\* the defined groups a course refers to by (semester, group name)
GroupsOf(c) ==
    {key \in DOMAIN selectionGroups :
        /\ c.selection_group # NoGroup
        /\ selectionGroups[key].semester = c.semester
        /\ selectionGroups[key].name = c.selection_group}
\* the entry of the limit table a course refers to, by its key
GroupKeyOf(c) == sgKey(c.semester, c.selection_group)
HasLimitEntry(c) ==
    c.selection_group # NoGroup /\ GroupKeyOf(c) \in DOMAIN groupLimits
Members(key) ==
    {c \in Courses : key \in GroupsOf(c)}
SelectedCount(key) == Len(selectionGroups[key].selected)
\* the step is a call toggleCourse(c.semester, c.name, {checked})
IsToggleOf(c, checked) ==
    /\ pc = "ready"
    /\ SameCall(last', "toggleCourse", c.semester, c.name, checked)
StoresUnchanged ==
    /\ selectedCourses' = selectedCourses
    /\ selectionGroups' = selectionGroups
    /\ totalCredits' = totalCredits

(***************************************************************************)
(* C1.  After initializeSelectionGroups and after every toggleCourse, the  *)
(* selected list of every defined group (Required members included) is    *)
(* no longer than the group's limit.  The code enters every Required       *)
(* member of a group without looking at the limit (lines 856-861), so two  *)
(* Required members of a "pick 1" group refute it.                         *)
(***************************************************************************)
C1_SelectedWithinLimit ==
    Ready => \A key \in DOMAIN selectionGroups :
                SelectedCount(key) <= selectionGroups[key].limit

(***************************************************************************)
(* C2.  A Required course is in the chosen list of its semester in every   *)
(* reachable state, and a toggleCourse call that names a Required course   *)
(* changes nothing.  toggleCourse has no test of course.required: a call   *)
(* with an unchecked box removes the Required course (lines 1190-1198).    *)
(***************************************************************************)
C2_RequiredNeverRemoved ==
    /\ [](Ready => \A c \in Courses : IsRequired(c) => IsChosen(c))
    /\ [][\A c \in Courses, checked \in BOOLEAN :
            (IsToggleOf(c, checked) /\ IsRequired(c)) => StoresUnchanged]_vars

(***************************************************************************)
(* C3.  A select of an unchosen Elective whose defined group is at its     *)
(* limit is refused whole: chosen lists, selected lists and the shown      *)
(* total stay as they were, the checkbox is reset, and the alert names the *)
(* group and its limit.                                                    *)
(***************************************************************************)
AtQuota(c) ==
    /\ ~IsRequired(c)
    /\ ~IsChosen(c)
    /\ HasLimitEntry(c)
    /\ SelectedCount(GroupKeyOf(c)) >= groupLimits[GroupKeyOf(c)].limit

C3_RejectedSelectChangesNothing ==
    [][\A c \in Courses :
         (IsToggleOf(c, TRUE) /\ AtQuota(c)) =>
            /\ StoresUnchanged
            /\ last'.checked = FALSE
            /\ last'.alert = <<groupLimits[GroupKeyOf(c)].group_name,
                                groupLimits[GroupKeyOf(c)].limit>>]_vars

C3_Witness ==
    /\ Ready
    /\ last.op = "toggleCourse"
    /\ last.alert # NoAlert
    /\ \E c \in Courses :
          /\ SameCall(last, "toggleCourse", c.semester, c.name, TRUE)
          /\ AtQuota(c)

(***************************************************************************)
(* C4.  A refused select that is repeated with nothing in between is       *)
(* refused again with the same alert, and again changes nothing.           *)
(***************************************************************************)
C4_RejectionRepeats ==
    [][(/\ pc = "ready"
        /\ last.op = "toggleCourse"
        /\ last.alert # NoAlert
        /\ SameCall(last', "toggleCourse", last.semester, last.name,
                    last.checkedIn)) =>
            /\ last'.alert = last.alert
            /\ last'.checked = last.checked
            /\ StoresUnchanged]_vars

C4_Witness ==
    /\ Ready
    /\ last.op = "toggleCourse"
    /\ last.alert # NoAlert
    /\ repeats >= 2

(***************************************************************************)
(* C5.  Two consecutive toggles of an Elective (select then deselect, or   *)
(* deselect then select again) give back the chosen set of every semester, *)
(* the selected count of every group and the total, and the second select  *)
(* is never refused.  Two semesters and group names with the same key      *)
(* (C27) share one selected list, which the deselect filters by name       *)
(* alone (line 1195), so a deselect can take two courses out of it.        *)
(***************************************************************************)
C5_TwoTogglesRestore ==
    Ready => \A c \in Courses :
        ~IsRequired(c) =>
            LET sel == IsChosen(c)
                r1 == toggleCourse(courseData, selectedCourses, selectionGroups,
                                   c.semester, c.name, ~sel)
                r2 == toggleCourse(courseData, r1.sc, r1.sg,
                                   c.semester, c.name, sel)
            IN /\ \A s \in DOMAIN selectedCourses :
                     Range(r2.sc[s]) = Range(selectedCourses[s])
               /\ \A key \in DOMAIN selectionGroups :
                     Len(r2.sg[key].selected) = SelectedCount(key)
               /\ updateSummary(semesterList, r2.sc) = totalCredits
               /\ sel => (r2.alert = NoAlert /\ c \in Range(r2.sc[c.semester]))

(***************************************************************************)
(* C6.  In every reachable state the shown total is the sum of the credits *)
(* of all chosen courses, Required and Elective, of all semesters.         *)
(***************************************************************************)
RECURSIVE SetSum(_)
SetSum(S) ==
    IF S = {} THEN 0
    ELSE LET c == CHOOSE x \in S : TRUE IN c.credits + SetSum(S \ {c})

C6_TotalIsSumOfChosen ==
    Ready => totalCredits = SetSum({c \in Courses : IsChosen(c)})

C6_Witness ==
    /\ Ready
    /\ last.op = "toggleCourse"
    /\ \E c, d \in Courses :
          /\ IsRequired(c) /\ IsChosen(c)
          /\ ~IsRequired(d) /\ IsChosen(d)
          /\ c.semester # d.semester
          /\ totalCredits = c.credits + d.credits

(***************************************************************************)
(* C7.  The selected list of every defined group holds exactly the chosen  *)
(* courses of the group's semester that are members of the group (courses  *)
(* of that semester whose selection_group is the group's name).  With the  *)
(* colliding keys of C27 a course of another semester enters the list.     *)
(***************************************************************************)
C7_SelectedIsChosenMembers ==
    Ready => \A key \in DOMAIN selectionGroups :
        Range(selectionGroups[key].selected)
            = Chosen(selectionGroups[key].semester) \cap Members(key)

(***************************************************************************)
(* C8.  Every course is at most once in the chosen lists, and only in the  *)
(* list of its own semester.                                               *)
(***************************************************************************)
C8_ChosenOnceInOwnSemester ==
    Ready => \A s \in DOMAIN selectedCourses :
        LET l == selectedCourses[s]
        IN \A i \in DOMAIN l :
              /\ l[i] \in Courses
              /\ l[i].semester = s
              /\ \A j \in DOMAIN l : l[j] = l[i] => j = i

C8_Witness ==
    /\ Ready
    /\ last.op = "toggleCourse"
    /\ last.checkedIn /\ last.wasSelected
    /\ \E c, d \in Courses :
          /\ c.name = d.name /\ c.semester # d.semester
          /\ IsChosen(c) /\ IsChosen(d)
          /\ last.name = c.name

(***************************************************************************)
(* C9.  The checkbox of an Elective is enabled iff the course is chosen,   *)
(* or refers to no entry of the limit table, or the selected count of its  *)
(* group is below the limit; and toggleCourse accepts a select exactly     *)
(* when createCourseCard would enable the checkbox.                        *)
(***************************************************************************)
Selectable(c) ==
    \/ IsChosen(c)
    \/ ~HasLimitEntry(c)
    \/ SelectedCount(GroupKeyOf(c)) < groupLimits[GroupKeyOf(c)].limit

C9_EnabledIffAccepted ==
    /\ [](Ready => \A c \in Courses :
            ~IsRequired(c) =>
                (~CardDisabled(selectedCourses, selectionGroups, c, FALSE)
                    <=> Selectable(c)))
    /\ [][\A c \in Courses :
            (IsToggleOf(c, TRUE) /\ ~IsRequired(c) /\ ~IsChosen(c)) =>
                ((IsChosen(c)' /\ last'.alert = NoAlert /\ last'.checked)
                    <=> ~CardDisabled(selectedCourses, selectionGroups, c, FALSE))]_vars

C9_Witness ==
    /\ Ready
    /\ last.op = "toggleCourse" /\ last.checkedIn /\ last.alert # NoAlert
    /\ \E c, d \in Courses :
          /\ SameCall(last, "toggleCourse", c.semester, c.name, TRUE)
          /\ CardDisabled(selectedCourses, selectionGroups, c, FALSE)
          /\ ~IsRequired(d) /\ ~IsChosen(d) /\ HasLimitEntry(d)
          /\ ~CardDisabled(selectedCourses, selectionGroups, d, FALSE)

(***************************************************************************)
(* C10.  Unchecking a chosen Elective always removes it from the chosen    *)
(* list and from every selected list, with no alert, however full the      *)
(* groups are.                                                             *)
(***************************************************************************)
C10_DeselectSucceeds ==
    [][\A c \in Courses :
         (IsToggleOf(c, FALSE) /\ ~IsRequired(c) /\ IsChosen(c)) =>
            /\ ~IsChosen(c)'
            /\ \A key \in DOMAIN selectionGroups :
                  c \notin Range(selectionGroups'[key].selected)
            /\ last'.alert = NoAlert
            /\ last'.checked = FALSE]_vars

C10_Witness ==
    /\ Ready
    /\ last.op = "toggleCourse" /\ ~last.checkedIn /\ last.wasSelected
    /\ \E c \in Courses :
          /\ SameCall(last, "toggleCourse", c.semester, c.name, FALSE)
          /\ ~IsRequired(c) /\ ~IsChosen(c) /\ HasLimitEntry(c)
          /\ \E key \in DOMAIN selectionGroups :
                SelectedCount(key) >= selectionGroups[key].limit

(***************************************************************************)
(* C11.  A select of an Elective without selection group is accepted in    *)
(* every reachable state: the course is in the chosen list afterwards, no  *)
(* alert is shown and the box stays checked, however full any group is.    *)
(***************************************************************************)
C11_UngroupedAlwaysSelectable ==
    [][\A c \in Courses :
         (IsToggleOf(c, TRUE) /\ ~IsRequired(c) /\ c.selection_group = NoGroup) =>
            /\ IsChosen(c)'
            /\ last'.alert = NoAlert
            /\ last'.checked]_vars

C11_Witness ==
    /\ Ready
    /\ last.op = "toggleCourse" /\ last.checkedIn /\ ~last.wasSelected
    /\ \E c \in Courses :
          /\ SameCall(last, "toggleCourse", c.semester, c.name, TRUE)
          /\ ~IsRequired(c) /\ c.selection_group = NoGroup /\ IsChosen(c)
          /\ \E key \in DOMAIN selectionGroups :
                /\ selectionGroups[key].semester = c.semester
                /\ SelectedCount(key) >= selectionGroups[key].limit

(***************************************************************************)
(* C12.  A course whose selection group name has no entry in the limit     *)
(* table (under the key of its semester and group name) is unconstrained:  *)
(* a select of it is never refused, it is listed with the general          *)
(* electives and in the grid of no group, and a toggle of it changes the   *)
(* selected count of no group.                                             *)
(***************************************************************************)
UndefinedGroup(c) == c.selection_group # NoGroup /\ ~HasLimitEntry(c)

AfterInitialization == Ready /\ last.op = "initializeSimulator"

RequiredOf(semester) ==
    {c \in Courses : c.semester = semester /\ IsRequired(c)}

C13_InitialStateIsRequiredOnly ==
    AfterInitialization =>
        /\ \A s \in Range(semesterList) :
              /\ Chosen(s) = RequiredOf(s)
              /\ Len(selectedCourses[s]) = Cardinality(RequiredOf(s))
        /\ totalCredits = SetSum({c \in Courses : IsRequired(c)})
        /\ \A key \in DOMAIN selectionGroups :
              SelectedCount(key)
                 = Cardinality({c \in Members(key) : IsRequired(c)})
(***************************************************************************)
(* C14.  Quota release.  When the last call was a select of group member   *)
(* C refused because its group was full, and this step deselects a chosen  *)
(* Elective member D of the same group, then a select of C in the state    *)
(* reached is accepted and leaves the group's count at its limit.  With    *)
(* the colliding keys of C27 the deselect of D also removes a same-named   *)
(* course of another semester from the list (line 1195), and the count     *)
(* ends below the limit.                                                   *)
(***************************************************************************)
RejectedSelectOf(call, c) ==
    /\ SameCall(call, "toggleCourse", c.semester, c.name, TRUE)
    /\ call.alert # NoAlert

C14_QuotaRelease ==
    [][\A key \in DOMAIN selectionGroups :
         \A C \in Members(key), D \in Members(key) :
            ( /\ RejectedSelectOf(last, C)
              /\ IsToggleOf(D, FALSE)
              /\ ~IsRequired(D) /\ IsChosen(D) )
            => LET r == toggleCourse(courseData, selectedCourses',
                                     selectionGroups', C.semester, C.name, TRUE)
               IN /\ r.alert = NoAlert
                  /\ C \in Range(r.sc[C.semester])
                  /\ Len(r.sg[key].selected) = r.sg[key].limit]_vars
(***************************************************************************)
(* C15.  An applied select of an Elective of a defined group raises the    *)
(* group's selected count by 1 and the total by the course's credits; an   *)
(* applied deselect lowers both by the same amounts.  With the colliding   *)
(* keys of C27 a deselect removes two entries of the same name.            *)
(***************************************************************************)
C15_SelectAndDeselectCountOne ==
    [][\A c \in Courses : \A key \in GroupsOf(c) :
         ~IsRequired(c) =>
            /\ (IsToggleOf(c, TRUE) /\ ~IsChosen(c) /\ IsChosen(c)') =>
                  /\ Len(selectionGroups'[key].selected) = SelectedCount(key) + 1
                  /\ totalCredits' = totalCredits + c.credits
            /\ (IsToggleOf(c, FALSE) /\ IsChosen(c) /\ ~IsChosen(c)') =>
                  /\ Len(selectionGroups'[key].selected) = SelectedCount(key) - 1
                  /\ totalCredits' = totalCredits - c.credits]_vars
(***************************************************************************)
(* C16.  A toggleCourse call for (semester, name) leaves the chosen list   *)
(* of every other semester as it was, and with it the status of a          *)
(* same-named course there, and leaves the selected count of every group   *)
(* of another semester as it was.  With the colliding keys of C27 the      *)
(* course is pushed into, or filtered out of, a group of another semester. *)
(***************************************************************************)
C16_ToggleStaysInItsSemester ==
    [][(pc = "ready" /\ last'.op = "toggleCourse") =>
          /\ \A s \in DOMAIN selectedCourses :
                s # last'.semester => selectedCourses'[s] = selectedCourses[s]
          /\ \A key \in DOMAIN selectionGroups :
                selectionGroups[key].semester # last'.semester =>
                   Len(selectionGroups'[key].selected) = SelectedCount(key)]_vars
(***************************************************************************)
(* C17.  Showing a tab, which renders the courses or the group summary and *)
(* recomputes the summary, changes no chosen list and no group's selected  *)
(* list, and the total it displays is the total the summary displayed      *)
(* before.                                                                 *)
(***************************************************************************)
C17_RenderingIsPure ==
    [][(pc = "ready" /\ last'.op = "showSemester") =>
          /\ selectedCourses' = selectedCourses
          /\ selectionGroups' = selectionGroups
          /\ totalCredits' = totalCredits
          /\ totalCredits' = updateSummary(semesterList', selectedCourses')]_vars

C17_Witness ==
    /\ Ready
    /\ last.op = "showSemester"
    /\ totalCredits > 0
    /\ \E c, d \in Courses :
          /\ c.semester # d.semester
          /\ ~IsRequired(c) /\ IsChosen(c) /\ IsChosen(d)
          /\ last.semester = d.semester
          /\ \E key \in DOMAIN selectionGroups : SelectedCount(key) > 0
(***************************************************************************)
(* C18.  A toggleCourse call whose (semester, course name) is not in the   *)
(* catalog leaves the chosen list of every semester and the selected list  *)
(* of every group as they were.                                            *)
(***************************************************************************)
InCatalog(semester, courseName) ==
    \E c \in Courses : c.semester = semester /\ c.name = courseName

C18_UnknownCourseChangesNothing ==
    [][(/\ pc = "ready"
        /\ last'.op = "toggleCourse"
        /\ ~InCatalog(last'.semester, last'.name)) =>
          /\ selectedCourses' = selectedCourses
          /\ selectionGroups' = selectionGroups]_vars

C18_Witness ==
    /\ Ready
    /\ last.op = "toggleCourse"
    /\ ~InCatalog(last.semester, last.name)
    /\ last.semester \in Range(semesterList)
    /\ \E c \in Courses :
          c.name = last.name /\ c.semester # last.semester /\ IsChosen(c)
(***************************************************************************)
(* C19.  Every toggleCourse call that did not apply the requested change,  *)
(* so that afterwards the named course is not in the catalog or its chosen *)
(* status is not the requested one, has shown a rejection.  The code       *)
(* returns without a word when the course is not found (line 1174).        *)
(***************************************************************************)
RequestApplied ==
    /\ InCatalog(last.semester, last.name)
    /\ IsSelectedIn(selectedCourses, last.semester, last.name) = last.checkedIn

C19_FailureIsReported ==
    (Ready /\ last.op = "toggleCourse" /\ ~RequestApplied) =>
        last.alert # NoAlert
(***************************************************************************)
(* C20.  Required members of a group never make the select of an Elective  *)
(* of the group fail: whenever such a select has been refused, the         *)
(* Electives alone in the group's selected list reach the limit.  The test *)
(* of line 1182 compares the length of the whole list, Required members    *)
(* included, with the limit.                                               *)
(***************************************************************************)
ElectivesSelected(key) ==
    {i \in DOMAIN selectionGroups[key].selected :
        ~IsRequired(selectionGroups[key].selected[i])}

C20_RequiredNeverBlocksElective ==
    Ready => \A c \in Courses :
        (~IsRequired(c) /\ HasLimitEntry(c) /\ RejectedSelectOf(last, c)) =>
            Cardinality(ElectivesSelected(GroupKeyOf(c)))
                >= selectionGroups[GroupKeyOf(c)].limit
(***************************************************************************)
(* C21.  A row of the sheet whose name cell or semester cell is missing or *)
(* blank gives no course: every course of the generated list, and every    *)
(* semester of the semester list, has the stripped name and semester of a  *)
(* row in which both cells hold text.  A missing semester cell reaches     *)
(* line 204 as NaN and str() turns it into the semester 'nan'.             *)
(***************************************************************************)
MissingOrBlank(cell) == cell.isna \/ Strip(cell.text) = <<>>

CompleteRows ==
    {i \in DOMAIN sheet.rows :
        /\ ~MissingOrBlank(sheet.rows[i].name)
        /\ ~MissingOrBlank(sheet.rows[i].semester)}

C21_IncompleteRowsDropped ==
    /\ \A c \in Range(courseData) :
          \E i \in CompleteRows :
             /\ c.name = Join(Strip(sheet.rows[i].name.text))
             /\ c.semester = Join(Strip(sheet.rows[i].semester.text))
    /\ \A s \in Range(SemesterListOf(courseData)) :
          \E i \in CompleteRows : s = Join(Strip(sheet.rows[i].semester.text))
(***************************************************************************)
(* C22.  When a required logical column is not matched, process_data       *)
(* returns False; and as long as load_excel_data and process_data have not *)
(* both returned True, generate_html has not been called, no course list   *)
(* has been generated and no file has been written.                        *)
(***************************************************************************)
RequiredColumnMissing == required_std_cols \ sheet.columns # {}

C22_NoOutputAfterFailure ==
    /\ (result.process # "none" /\ RequiredColumnMissing) =>
          result.process = "False"
    /\ (result.load # "True" \/ result.process # "True") =>
          /\ result.html = "none"
          /\ result.file = <<>>
          /\ courseData = <<>>

C22_Witness ==
    /\ pc = "end"
    /\ RequiredColumnMissing
    /\ sheet.rows # <<>>
    /\ result.load = "True"
    /\ result.process = "False"
    /\ result.html = "none"
(***************************************************************************)
(* C23.  When generate_html has run on a catalog with at least one course  *)
(* and the file could be written, it has returned the path of the file and *)
(* the file holds the filled template.  The template has braces of the     *)
(* script that were left single ("{}" at line 793 first), so               *)
(* html_template.format raises and generate_html returns False for every   *)
(* catalog.                                                                *)
(***************************************************************************)
C23_HtmlIsGenerated ==
    (result.html # "none" /\ courseData # <<>> /\ result.writable) =>
        /\ result.html = OutputPath
        /\ result.file # <<>>
(***************************************************************************)
(* C24.  For every course of the generated list that carries a selection   *)
(* group name and a selection limit, the limit table has an entry for the  *)
(* course's semester and group name, with the course's limit.  The first   *)
(* row of a key decides the entry (line 164), so a later row of the same   *)
(* group with another number keeps its own selection_limit.                *)
(***************************************************************************)
C24_LimitTableAgreesWithCourses ==
    \A c \in Range(courseData) :
        (c.selection_group # NoGroup /\ c.selection_limit # 0) =>
            \E key \in DOMAIN groupLimits :
               /\ groupLimits[key].semester = c.semester
               /\ groupLimits[key].group_name = c.selection_group
               /\ groupLimits[key].limit = c.selection_limit
(***************************************************************************)
(* C25.  For the selection cell of every row process_data has read,        *)
(* parse_group_limits returns a name and a number exactly when the text    *)
(* holds the marker followed by digits; the number is that integer and the *)
(* name is the stripped text in front of the marker that matched, or the   *)
(* default label; every other text gives (None, None).  The code takes the *)
(* name in front of the first marker of the text (split, line 96), which   *)
(* is another one when a marker without digit comes earlier.               *)
(***************************************************************************)
SelectionText(r) == Strip(StrOf(r.selection_count))

C25_ParseGroupLimits ==
    result.process = "True" =>
        \A i \in DOMAIN df :
            parse_group_limits(SelectionText(df[i]))
               = parse_group_limits_BeforeMatch(SelectionText(df[i]))
(***************************************************************************)
(* C26.  Every entry of the limit table, and every selection group made    *)
(* from it, has a limit of at least 1: a cell that parses to the limit 0   *)
(* creates no entry.                                                       *)
(***************************************************************************)
C26_LimitsArePositive ==
    /\ \A key \in DOMAIN groupLimits : groupLimits[key].limit >= 1
    /\ \A key \in DOMAIN selectionGroups : selectionGroups[key].limit >= 1

C26_Witness ==
    /\ result.process = "True"
    /\ "selection_count" \in sheet.columns
    /\ groupLimits # <<>>
    /\ \E i \in DOMAIN df :
          LET parsed == parse_group_limits(SelectionText(df[i]))
          IN /\ parsed.matched /\ parsed.limit = 0
             /\ StrippedCell(df[i].semester) # ""
             /\ sgKey(StrippedCell(df[i].semester), parsed.group_name)
                   \notin DOMAIN groupLimits
(***************************************************************************)
(* C27.  Two different (semester, group name) pairs of rows that define a  *)
(* limit have two different keys, and the entry found under the key of a   *)
(* course is the entry of the course's own semester and group name.  The   *)
(* key is the two texts joined by "_" (lines 162, 857, 1180), so           *)
(* ("a", "b_c") and ("a_b", "c") have the same key.                        *)
(***************************************************************************)
DefinesGroup(c) == c.selection_group # NoGroup /\ c.selection_limit >= 1

C27_GroupKeysUnique ==
    Ready =>
        /\ \A c, d \in Courses :
              ( /\ DefinesGroup(c) /\ DefinesGroup(d)
                /\ <<c.semester, c.selection_group>>
                      # <<d.semester, d.selection_group>> )
              => GroupKeyOf(c) # GroupKeyOf(d)
        /\ \A c \in Courses :
              GroupKeyOf(c) \in DOMAIN selectionGroups =>
                 /\ selectionGroups[GroupKeyOf(c)].semester = c.semester
                 /\ selectionGroups[GroupKeyOf(c)].name = c.selection_group
(***************************************************************************)
(* C28.  When generate_course_data has run, it has produced a course for   *)
(* every row it keeps, and the course of a row whose credits cell is not   *)
(* the text of an integer has credits 0.  to_numeric accepts a fraction    *)
(* and int() truncates it (lines 147, 214); it also accepts 'inf', for     *)
(* which int() raises and the handler of line 227 returns no course.       *)
(***************************************************************************)
IntegerText(chars) ==
    LET s == Strip(chars)
        body == IF s # <<>> /\ Head(s) = "-" THEN Tail(s) ELSE s
    IN body # <<>> /\ DigitRun(body) = body

KeptRows == SelectSeq(df, Kept)

C28_UnparsableCreditsAreZero ==
    result.html # "none" =>
        /\ Len(courseData) = Len(KeptRows)
        /\ \A i \in DOMAIN KeptRows :
              ( \/ KeptRows[i].credits.isna
                \/ ~IntegerText(KeptRows[i].credits.text) )
              => (i \in DOMAIN courseData /\ courseData[i].credits = 0)

(***************************************************************************)
(* C29.  Every course of the generated list has credits >= 0.  A credits   *)
(* cell with a negative number passes to_numeric and int() unchanged.      *)
(***************************************************************************)
C29_CreditsNotNegative ==
    \A c \in Range(courseData) : c.credits >= 0
(***************************************************************************)
(* C30.  The lists renderCourses fills for a semester partition its        *)
(* courses: every course is in exactly one of the Required list, the list  *)
(* of one rendered group, and the general electives; a Required course is  *)
(* in the Required list, an Elective of a defined group in the list of     *)
(* that group, and an Elective without group or without limit entry once   *)
(* among the general electives.  With the colliding keys of C27 an         *)
(* Elective finds an entry under its key, so it is no general elective,    *)
(* but the entry is a group of another semester, so no list of its own     *)
(* semester holds it.                                                      *)
(***************************************************************************)
ListsHolding(c) ==
    (IF c \in Range(requiredCourses(courseData, c.semester))
     THEN {<<"required", "">>} ELSE {})
    \cup {<<"group", g>> :
            g \in {n \in RenderedGroupNames(selectionGroups, c.semester) :
                      c \in Range(coursesForThisGroup(courseData, c.semester, n))}}
    \cup (IF c \in Range(generalOptionalCourses(courseData, selectionGroups,
                                                c.semester))
          THEN {<<"general", "">>} ELSE {})

TimesListed(c, list) == Cardinality({i \in DOMAIN list : list[i] = c})

C30_CoursesArePartitioned ==
    Ready => \A c \in Courses :
        /\ Cardinality(ListsHolding(c)) = 1
        /\ IsRequired(c) => ListsHolding(c) = {<<"required", "">>}
        /\ (~IsRequired(c) /\ GroupsOf(c) # {}) =>
              ListsHolding(c) = {<<"group", c.selection_group>>}
        /\ (~IsRequired(c) /\ ~HasLimitEntry(c)) =>
              /\ ListsHolding(c) = {<<"general", "">>}
              /\ TimesListed(c, generalOptionalCourses(courseData, selectionGroups,
                                                       c.semester)) = 1
(***************************************************************************)
(* C31.  A toggleCourse call for (semester, name) changes the chosen       *)
(* status of no other course, keeps the other chosen courses in their      *)
(* order, and leaves every group but the one under the key of the toggled  *)
(* course as it was; an Elective becomes chosen only in an accepted select *)
(* of it and stops being chosen only in a deselect of it.                  *)
(***************************************************************************)
OthersInOrder(list, semester) ==
    IF semester = last'.semester THEN FilterOutName(list, last'.name) ELSE list

ToggledKeys ==
    {GroupKeyOf(c) : c \in {d \in Courses : d.semester = last'.semester
                                            /\ d.name = last'.name}}

RECURSIVE SumOfTotals(_)
SumOfTotals(totals) ==
    IF DOMAIN totals = {} THEN 0
    ELSE LET g == CHOOSE x \in DOMAIN totals : TRUE
         IN totals[g] + SumOfTotals([h \in DOMAIN totals \ {g} |-> totals[h]])

ChosenOfArea(g) == {c \in Courses : IsChosen(c) /\ AreaOf(c) = g}

ChosenElectivesOf(key) ==
    {c \in Courses : /\ ~IsRequired(c) /\ IsChosen(c)
                     /\ c.selection_group # NoGroup /\ GroupKeyOf(c) = key}

C33_ElectivesWithinLimit ==
    /\ [](Ready => \A key \in DOMAIN selectionGroups :
             Cardinality(ChosenElectivesOf(key)) <= selectionGroups[key].limit)
    /\ [][\A c \in Courses :
            ( /\ IsToggleOf(c, TRUE) /\ ~IsChosen(c) /\ IsChosen(c)'
              /\ c.selection_group # NoGroup
              /\ GroupKeyOf(c) \in DOMAIN selectionGroups )
            => SelectedCount(GroupKeyOf(c)) < selectionGroups[GroupKeyOf(c)].limit]_vars

(***************************************************************************)
(* C34.  After every toggleCourse call on a course of the catalog, the     *)
(* checkbox is checked exactly when the course is in the chosen list of    *)
(* its semester (by name, the test of lines 1120 and 1176): an accepted    *)
(* select leaves it checked, a refused select resets it to unchecked, a    *)
(* deselect leaves it unchecked.                                           *)
(***************************************************************************)
LastToggledKnown ==
    /\ Ready
    /\ last.op = "toggleCourse"
    /\ InCatalog(last.semester, last.name)

C34_CheckboxMatchesChosen ==
    LastToggledKnown =>
       /\ last.checked <=> IsSelectedIn(selectedCourses, last.semester, last.name)
       /\ (last.checkedIn /\ ~last.wasSelected /\ last.alert = NoAlert)
             => last.checked
       /\ (last.checkedIn /\ ~last.wasSelected /\ last.alert # NoAlert)
             => ~last.checked
       /\ ~last.checkedIn => ~last.checked

\* a refused select: the box was checked by the user and is unchecked again
C34_Witness ==
    /\ LastToggledKnown
    /\ last.checkedIn
    /\ last.alert # NoAlert
    /\ ~last.checked
    /\ ~IsSelectedIn(selectedCourses, last.semester, last.name)

(***************************************************************************)
(* C35.  toggleCourse sets rather than flips.  A call whose checkbox       *)
(* state already matches the chosen status of the course (checked and      *)
(* chosen, or unchecked and not chosen) changes neither the chosen lists,  *)
(* nor the selected lists of the groups, nor the total; and a call that    *)
(* repeats the call before it (same semester, name and checkbox state)     *)
(* leaves the chosen lists and the selected lists as the first call left   *)
(* them.                                                                   *)
(***************************************************************************)
IsToggleStep == pc = "ready" /\ last'.op = "toggleCourse"

C35_ToggleSetsNotFlips ==
    [][IsToggleStep =>
         /\ (last'.checkedIn = last'.wasSelected) => StoresUnchanged
         /\ (repeats' >= 2) =>
                /\ selectedCourses' = selectedCourses
                /\ selectionGroups' = selectionGroups]_vars

\* the same select was made twice in a row on a catalog course that is chosen
\* and counted in a group
C35_Witness ==
    /\ LastToggledKnown
    /\ repeats >= 2
    /\ last.checkedIn
    /\ last.wasSelected
    /\ \E c \in Courses :
          /\ ~IsRequired(c)
          /\ c.semester = last.semester /\ c.name = last.name
          /\ IsChosen(c)
          /\ GroupKeyOf(c) \in DOMAIN selectionGroups
          /\ c \in Range(selectionGroups[GroupKeyOf(c)].selected)

(***************************************************************************)
(* C36.  Within a semester the grids of different selection groups and of  *)
(* different general-elective subject areas have different element ids,    *)
(* and the containers of different semesters have different ids; after     *)
(* renderCourses(semester) every Elective of the semester has exactly one  *)
(* card, and the card has a checkbox.  The ids keep only a-z, A-Z, 0-9,    *)
(* "-" and "_" of a name, so two areas written in Hangul get the same id:  *)
(* renderCourses fills the first grid with that id twice, and the          *)
(* Electives of the area rendered first are left without a card.           *)
(***************************************************************************)
Document == generateSemesterContents(semesterList, courseData, selectionGroups)

CardsAfterRender(semester) ==
    renderCourses(Document, [i \in DOMAIN Document |-> <<>>], courseData,
                  selectionGroups, semester)

CardPlacesOf(c, cards) ==
    {<<i, k>> \in (DOMAIN cards) \X (1..Len(courseData)) :
        k \in DOMAIN cards[i] /\ cards[i][k].course = c}

GridIdsDistinct ==
    \A i, j \in DOMAIN Document :
        ( /\ i # j
          /\ Document[i].semester = Document[j].semester
          /\ Document[i].kind \in {"group", "general"}
          /\ Document[j].kind \in {"group", "general"} )
        => Document[i].id # Document[j].id

SemesterIdsDistinct ==
    \A i, j \in DOMAIN Document :
        (i # j /\ Document[i].kind = "semester" /\ Document[j].kind = "semester")
        => Document[i].id # Document[j].id

EveryElectiveHasOneCard ==
    \A c \in Courses :
        ~IsRequired(c) =>
           LET cards == CardsAfterRender(c.semester)
               places == CardPlacesOf(c, cards)
           IN /\ Cardinality(places) = 1
              /\ \A pl \in places : cards[pl[1]][pl[2]].toggle

C36_DistinctContainers ==
    Ready => /\ GridIdsDistinct
             /\ SemesterIdsDistinct
             /\ EveryElectiveHasOneCard

(***************************************************************************)
(* C37.  Every group of the limit table has a member in the generated      *)
(* course list: a course of the group's semester whose selection group is  *)
(* the group's name.  process_data enters a group for every row that has   *)
(* a semester and a "name택N" cell (lines 155-169) without looking at the  *)
(* course name, and generate_course_data drops the row when its name is    *)
(* blank (line 200): the group stays without a course.                     *)
(***************************************************************************)
MembersInList(key) ==
    {c \in Range(courseData) :
        /\ c.semester = groupLimits[key].semester
        /\ c.selection_group = groupLimits[key].group_name}

C37_EveryGroupHasMember ==
    result.html # "none" =>
        \A key \in DOMAIN groupLimits : MembersInList(key) # {}
====
